---- MODULE Spec2Model ----
(***************************************************************************)
(* The on-chain proxy detector of harpoon (src/src/proxy_detect).          *)
(*                                                                         *)
(* A Rust &str is modelled as the sequence of its characters, each a       *)
(* one-character string, so that len(), slicing and == are the code's.     *)
(* A detect_proxy call is a process that advances one RPC round trip at a  *)
(* time (its await points); the JSON-RPC client is the environment and     *)
(* answers every request with a transport error or a JSON value.           *)
(***************************************************************************)
EXTENDS Integers, Sequences, FiniteSets, TLC

(***************************************************************************)
(* Rust string helpers                                                     *)
(***************************************************************************)
Rep(ch, n) == [i \in 1..n |-> ch]

\* &s[a..b] and &s[a..] (0-based, half open)
Slice(s, a, b) == SubSeq(s, a + 1, b)

SliceFrom(s, a) == SubSeq(s, a + 1, Len(s))

starts_with(s, p) == Len(s) >= Len(p) /\ SubSeq(s, 1, Len(p)) = p

Str0x == <<"0", "x">>

\* Result<T, E>: the error text is never read by the detector
Ok(v) == [ok |-> TRUE, v |-> v]

Err == [ok |-> FALSE, v |-> <<>>]

\* digit value of a character for from_str_radix(_, 16); -1 when it is none
HexVal(ch) ==
    CASE ch = "0" -> 0 [] ch = "1" -> 1 [] ch = "2" -> 2 [] ch = "3" -> 3
      [] ch = "4" -> 4 [] ch = "5" -> 5 [] ch = "6" -> 6 [] ch = "7" -> 7
      [] ch = "8" -> 8 [] ch = "9" -> 9
      [] ch \in {"a", "A"} -> 10 [] ch \in {"b", "B"} -> 11
      [] ch \in {"c", "C"} -> 12 [] ch \in {"d", "D"} -> 13
      [] ch \in {"e", "E"} -> 14 [] ch \in {"f", "F"} -> 15
      [] OTHER -> -1

IsHex(s) == \A i \in 1..Len(s) : HexVal(s[i]) >= 0

HexChar(n) ==
    <<"0", "1", "2", "3", "4", "5", "6", "7", "8", "9", "a", "b", "c", "d", "e", "f">>[n + 1]

\* two lowercase hex digits of a byte, and the hex text of a byte string
HexOfByte(b) == <<HexChar(b \div 16), HexChar(b % 16)>>

RECURSIVE HexOfBytes(_)
HexOfBytes(bs) == IF bs = <<>> THEN <<>> ELSE HexOfByte(Head(bs)) \o HexOfBytes(Tail(bs))

(***************************************************************************)
(* detector.rs: constants                                                  *)
(***************************************************************************)
EIP_1967_LOGIC_SLOT ==
    Str0x \o <<"3","6","0","8","9","4","a","1","3","b","a","1","a","3","2","1","0","6","6","7","c","8","2","8","4","9","2","d","b","9","8","d","c","a","3","e","2","0","7","6","c","c","3","7","3","5","a","9","2","0","a","3","c","a","5","0","5","d","3","8","2","b","b","c">>

OPEN_ZEPPELIN_IMPLEMENTATION_SLOT ==
    Str0x \o <<"7","0","5","0","c","9","e","0","f","4","c","a","7","6","9","c","6","9","b","d","3","a","8","e","f","7","4","0","b","c","3","7","9","3","4","f","8","e","2","c","0","3","6","e","5","a","7","2","3","f","d","8","e","e","0","4","8","e","d","3","f","8","c","3">>

EIP_1822_LOGIC_SLOT ==
    Str0x \o <<"c","5","f","1","6","f","0","f","c","c","6","3","9","f","a","4","8","a","6","9","4","7","8","3","6","d","9","8","5","0","f","5","0","4","7","9","8","5","2","3","b","f","8","c","9","a","3","a","8","7","d","5","8","7","6","c","f","6","2","2","b","c","f","7">>

EIP_1967_BEACON_SLOT ==
    Str0x \o <<"a","3","f","0","a","d","7","4","e","5","4","2","3","a","e","b","f","d","8","0","d","3","e","f","4","3","4","6","5","7","8","3","3","5","a","9","a","7","2","a","e","a","e","e","5","9","f","f","6","c","b","3","5","8","2","b","3","5","1","3","3","d","5","0">>

\* every method id is the selector followed by 28 zero bytes
MethodId(sel) == Str0x \o sel \o Rep("0", 56)

EIP_897_IMPLEMENTATION == MethodId(<<"5","c","6","0","d","a","1","b">>)

EIP_897_PROXY_TYPE == MethodId(<<"4","5","5","5","d","5","c","9">>)

EIP_1967_BEACON_IMPLEMENTATION == MethodId(<<"5","c","6","0","d","a","1","b">>)

EIP_1967_BEACON_CHILD_IMPLEMENTATION == MethodId(<<"d","a","5","2","5","7","1","6">>)

SAFE_MASTER_COPY == MethodId(<<"a","6","1","9","4","8","6","e">>)

COMPTROLLER_IMPLEMENTATION == MethodId(<<"b","b","8","2","a","a","5","e">>)

BATCH_RELAYER_VERSION == MethodId(<<"5","4","f","d","4","d","5","0">>)

BATCH_RELAYER_GET_LIBRARY == MethodId(<<"7","6","7","8","9","2","2","e">>)

EIP_2535_FACET_ADDRESSES == MethodId(<<"5","2","e","f","6","b","2","c">>)

ZERO_ADDRESS == Str0x \o Rep("0", 40)

\* the word proxyType() must return for an immutable EIP-897 proxy
PROXY_TYPE_FORWARDING == Str0x \o Rep("0", 63) \o <<"1">>

(***************************************************************************)
(* detector.rs: read_address                                               *)
(***************************************************************************)
\* a read_address without its test for the empty answer
read_address_AcceptEmpty(value) ==
    LET address == IF Len(value) = 66 THEN Str0x \o SliceFrom(value, 26) ELSE value
    IN  IF address = ZERO_ADDRESS THEN Err ELSE Ok(address)

read_address(value) ==
    IF value = <<>> \/ value = Str0x
    THEN Err
    ELSE LET address == IF Len(value) = 66 THEN Str0x \o SliceFrom(value, 26) ELSE value
         IN  IF address = ZERO_ADDRESS THEN Err ELSE Ok(address)

(***************************************************************************)
(* eip1167.rs: parse_1167_bytecode                                         *)
(***************************************************************************)
EIP_1167_BYTECODE_PREFIX ==
    <<"0","x","3","6","3","d","3","d","3","7","3","d","3","d","3","d","3","6","3","d">>

\* no suffix to look for
EIP_1167_NoSuffix == <<>>

EIP_1167_BYTECODE_SUFFIX == <<"5","7","f","d","5","b","f","3">>

\* the offset counted in bytes: two hex digits each
SUFFIX_OFFSET_InBytes == 2 * 22

SUFFIX_OFFSET_FROM_ADDRESS_END == 22

\* u8::from_str_radix(two characters, 16), which takes a leading +; -1 for Err
ParseU8(s) ==
    IF Len(s) = 2 /\ IsHex(s) THEN HexVal(s[1]) * 16 + HexVal(s[2])
    ELSE IF Len(s) = 2 /\ s[1] = "+" /\ IsHex(<<s[2]>>) THEN HexVal(s[2])
    ELSE -1

\* zeros on the right up to 40 characters
padded_address_Right(address_from_bytecode) ==
    address_from_bytecode \o Rep("0", 40 - Len(address_from_bytecode))

\* format!("{:0>40}", address_from_bytecode): zeros on the left up to 40 characters
padded_address(address_from_bytecode) ==
    Rep("0", 40 - Len(address_from_bytecode)) \o address_from_bytecode

\* a parser that takes every push opcode from push1 to push32
parse_1167_bytecode_Push32(bytecode) ==
    LET prefix_len == Len(EIP_1167_BYTECODE_PREFIX)
    IN
    IF ~starts_with(bytecode, EIP_1167_BYTECODE_PREFIX) THEN Err
    ELSE IF Len(bytecode) < prefix_len + 2 THEN Err
    ELSE
      LET push_opcode == ParseU8(Slice(bytecode, prefix_len, prefix_len + 2))
          address_length == push_opcode - 95     \* 0x5f
          address_start == prefix_len + 2
          address_end == address_start + address_length * 2
          suffix_start == address_end + SUFFIX_OFFSET_FROM_ADDRESS_END
      IN
      IF push_opcode < 0 THEN Err
      ELSE IF address_length < 1 \/ address_length > 32 THEN Err
      ELSE IF Len(bytecode) < address_end THEN Err
      ELSE IF Len(bytecode) < suffix_start + Len(EIP_1167_BYTECODE_SUFFIX) THEN Err
      ELSE IF ~starts_with(SliceFrom(bytecode, suffix_start), EIP_1167_BYTECODE_SUFFIX) THEN Err
      ELSE
        LET address_from_bytecode == Slice(bytecode, address_start, address_end)
        IN  Ok(Str0x \o padded_address(address_from_bytecode))

parse_1167_bytecode(bytecode) ==
    LET prefix_len == Len(EIP_1167_BYTECODE_PREFIX)
    IN
    IF ~starts_with(bytecode, EIP_1167_BYTECODE_PREFIX) THEN Err
    ELSE IF Len(bytecode) < prefix_len + 2 THEN Err
    ELSE
      LET push_opcode == ParseU8(Slice(bytecode, prefix_len, prefix_len + 2))
          address_length == push_opcode - 95     \* 0x5f
          address_start == prefix_len + 2
          address_end == address_start + address_length * 2
          suffix_start == address_end + SUFFIX_OFFSET_FROM_ADDRESS_END
      IN
      IF push_opcode < 0 THEN Err
      ELSE IF address_length < 1 \/ address_length > 20 THEN Err
      ELSE IF Len(bytecode) < address_end THEN Err
      ELSE IF Len(bytecode) < suffix_start + Len(EIP_1167_BYTECODE_SUFFIX) THEN Err
      ELSE IF ~starts_with(SliceFrom(bytecode, suffix_start), EIP_1167_BYTECODE_SUFFIX) THEN Err
      ELSE
        LET address_from_bytecode == Slice(bytecode, address_start, address_end)
        IN  Ok(Str0x \o padded_address(address_from_bytecode))

(***************************************************************************)
(* 64-bit unsigned integers (u64, and usize of a 64-bit target) as four    *)
(* 16-bit limbs, most significant first, so that the wrap-around of the    *)
(* code's arithmetic is computed and not assumed away.                     *)
(***************************************************************************)
LimbBase == 2 ^ 16

Limb(s) == ((HexVal(s[1]) * 16 + HexVal(s[2])) * 16 + HexVal(s[3])) * 16 + HexVal(s[4])

U64FromNat(n) == <<0, 0, n \div LimbBase, n % LimbBase>>

\* the value, for a number below 2^30
U64Small(a) == a[1] = 0 /\ a[2] = 0 /\ a[3] < 16384

U64ToNat(a) == a[3] * LimbBase + a[4]

\* n < a, for a natural n below 2^30
NatLtU64(n, a) == IF U64Small(a) THEN n < U64ToNat(a) ELSE TRUE

\* a + b and a * k (k <= 64), wrapped to 64 bits, with the overflow flag
U64Add(a, b) ==
    LET s4 == a[4] + b[4]
        s3 == a[3] + b[3] + s4 \div LimbBase
        s2 == a[2] + b[2] + s3 \div LimbBase
        s1 == a[1] + b[1] + s2 \div LimbBase
    IN  [v |-> <<s1 % LimbBase, s2 % LimbBase, s3 % LimbBase, s4 % LimbBase>>,
         of |-> s1 \div LimbBase > 0]

U64Mul(a, k) ==
    LET p4 == a[4] * k
        p3 == a[3] * k + p4 \div LimbBase
        p2 == a[2] * k + p3 \div LimbBase
        p1 == a[1] * k + p2 \div LimbBase
    IN  [v |-> <<p1 % LimbBase, p2 % LimbBase, p3 % LimbBase, p4 % LimbBase>>,
         of |-> p1 \div LimbBase > 0]

\* u64::from_str_radix(s, 16) and usize::from_str_radix(s, 16): Err on an empty
\* string, on a character that is no hex digit and on a value of 2^64 or more;
\* one leading "+" is skipped.
from_str_radix(s) ==
    LET digits == IF s # <<>> /\ s[1] = "+" THEN Tail(s) ELSE s IN
    IF digits = <<>> \/ ~IsHex(digits) THEN Err
    ELSE LET p == Rep("0", 16) \o digits
             n == Len(p)
         IN  IF \E i \in 1..(n - 16) : p[i] # "0" THEN Err
             ELSE Ok(<<Limb(SubSeq(p, n - 15, n - 12)), Limb(SubSeq(p, n - 11, n - 8)),
                       Limb(SubSeq(p, n - 7, n - 4)), Limb(SubSeq(p, n - 3, n))>>)

\* a panic (or abort) of the thread: an arithmetic overflow with overflow checks
\* on, a slice out of range, an allocation that cannot be made
Panic == [ok |-> FALSE, v |-> <<>>, panic |-> TRUE]

IsPanic(r) == "panic" \in DOMAIN r

(***************************************************************************)
(* read_string.rs: read_string.  overflow_checks is the build's setting    *)
(* (on in debug builds, off in release builds).                            *)
(***************************************************************************)
RECURSIVE Utf8Valid(_)
Utf8Valid(bs) ==
    LET n == Len(bs)
        cont(i) == i <= n /\ bs[i] >= 128 /\ bs[i] <= 191
        b == bs[1]
    IN
    IF n = 0 THEN TRUE
    ELSE IF b < 128 THEN Utf8Valid(Tail(bs))
    ELSE IF b >= 194 /\ b <= 223 THEN cont(2) /\ Utf8Valid(SubSeq(bs, 3, n))
    ELSE IF b >= 224 /\ b <= 239
         THEN /\ cont(2) /\ cont(3)
              /\ (b = 224 => bs[2] >= 160)
              /\ (b = 237 => bs[2] <= 159)
              /\ Utf8Valid(SubSeq(bs, 4, n))
    ELSE IF b >= 240 /\ b <= 244
         THEN /\ cont(2) /\ cont(3) /\ cont(4)
              /\ (b = 240 => bs[2] >= 144)
              /\ (b = 244 => bs[2] <= 143)
              /\ Utf8Valid(SubSeq(bs, 5, n))
    ELSE FALSE

\* the bytes of a hex text of even length; <<-1>> when a pair is no byte
RECURSIVE BytesOfHex(_)
BytesOfHex(h) ==
    IF h = <<>> THEN <<>>
    ELSE LET b == ParseU8(SubSeq(h, 1, 2))
             rest == BytesOfHex(SubSeq(h, 3, Len(h)))
         IN  IF b < 0 \/ rest = <<-1>> THEN <<-1>> ELSE <<b>> \o rest

read_string(hex, overflow_checks) ==
    IF ~starts_with(hex, Str0x) THEN Err
    ELSE
      LET clean_hex == SliceFrom(hex, 2) IN
      IF clean_hex = <<>> THEN Ok(<<>>)
      ELSE IF Len(clean_hex) % 2 # 0 THEN Err
      ELSE IF Len(clean_hex) < 64 THEN Err
      ELSE
        LET offset == from_str_radix(Slice(clean_hex, 0, 64)) IN
        IF ~offset.ok THEN Err
        ELSE IF offset.v # U64FromNat(32) THEN Err
        ELSE IF Len(clean_hex) < 128 THEN Err
        ELSE
          LET length == from_str_radix(Slice(clean_hex, 64, 128)) IN
          IF ~length.ok THEN Err
          ELSE
            LET string_start == 128
                twice == U64Mul(length.v, 2)
                string_end == U64Add(U64FromNat(string_start), twice.v)
                wrapped == twice.of \/ string_end.of
            IN
            IF wrapped /\ overflow_checks THEN Panic
            ELSE IF NatLtU64(Len(clean_hex), string_end.v) THEN Err
            \* after a wrap-around the slice 128..string_end is out of order, or
            \* Vec::with_capacity(length) cannot allocate length >= 2^63 - 64 bytes
            ELSE IF wrapped THEN Panic
            ELSE
              LET string_hex == Slice(clean_hex, string_start, U64ToNat(string_end.v))
                  bytes == BytesOfHex(string_hex)
              IN  IF bytes = <<-1>> THEN Err
                  ELSE IF ~Utf8Valid(bytes) THEN Err
                  ELSE Ok(bytes)

(***************************************************************************)
(* detector.rs: read_address_array                                         *)
(***************************************************************************)
\* the loop without its test for the zero address
RECURSIVE ReadWords_KeepZero(_, _, _)
ReadWords_KeepZero(hex, cursor, length) ==
    IF length = 0 THEN <<>>
    ELSE LET word == Slice(hex, cursor, cursor + 64)
             address_hex == Str0x \o SliceFrom(word, 24)
         IN  <<address_hex>> \o ReadWords_KeepZero(hex, cursor + 64, length - 1)

\* the loop of read_address_array over the words from cursor on
RECURSIVE ReadWords(_, _, _)
ReadWords(hex, cursor, length) ==
    IF length = 0 THEN <<>>
    ELSE LET word == Slice(hex, cursor, cursor + 64)
             address_hex == Str0x \o SliceFrom(word, 24)
             rest == ReadWords(hex, cursor + 64, length - 1)
         IN  IF address_hex # ZERO_ADDRESS THEN <<address_hex>> \o rest ELSE rest

\* a decoder for the one layout in which the array follows the offset word
read_address_array_Offset32(value, overflow_checks) ==
    LET hex == SliceFrom(value, 2)
        length == from_str_radix(Slice(hex, 64, 128))
    IN  IF ~starts_with(value, Str0x) \/ Len(hex) < 128 THEN Err
        ELSE IF from_str_radix(Slice(hex, 0, 64)) # Ok(U64FromNat(32)) THEN Err
        ELSE IF ~length.ok \/ ~U64Small(length.v) THEN Err
        ELSE IF Len(hex) < 128 + 64 * U64ToNat(length.v) THEN Err
        ELSE LET addresses == ReadWords(hex, 128, U64ToNat(length.v))
             IN  IF addresses = <<>> THEN Err ELSE Ok(addresses)

read_address_array(value, overflow_checks) ==
    IF ~starts_with(value, Str0x) THEN Err
    ELSE
      LET hex == SliceFrom(value, 2) IN
      IF Len(hex) < 64 THEN Err
      ELSE
        LET offset_bytes == from_str_radix(Slice(hex, 0, 64)) IN
        IF ~offset_bytes.ok THEN Err
        ELSE
          LET offset == U64Mul(offset_bytes.v, 2)
              after == U64Add(offset.v, U64FromNat(64))
          IN
          IF (offset.of \/ after.of) /\ overflow_checks THEN Panic
          ELSE IF NatLtU64(Len(hex), after.v) THEN Err
          \* offset + 64 wrapped below offset: the slice offset..offset+64 is out of order
          ELSE IF after.of THEN Panic
          ELSE
            LET length == from_str_radix(Slice(hex, U64ToNat(offset.v), U64ToNat(after.v))) IN
            IF ~length.ok THEN Err
            ELSE
              LET cursor == U64ToNat(after.v)
                  bytes64 == U64Mul(length.v, 64)
                  needed == U64Add(after.v, bytes64.v)
                  wrapped == bytes64.of \/ needed.of
              IN
              IF wrapped /\ overflow_checks THEN Panic
              ELSE IF NatLtU64(Len(hex), needed.v) THEN Err
              \* after a wrap-around length is at least 2^58 - 2^24 words: the loop
              \* runs past the end of hex and the slice of the next word panics
              ELSE IF wrapped THEN Panic
              ELSE
                LET addresses == ReadWords(hex, cursor, U64ToNat(length.v)) IN
                IF addresses = <<>> THEN Err ELSE Ok(addresses)

(***************************************************************************)
(* detector.rs: serde_json::from_str(..)["name"].as_str() of the           *)
(* BatchRelayer probe, as a table over the texts of the model: the two     *)
(* JSON objects below parse, every other text of the model (the empty      *)
(* text, a text that is no JSON) is a parse error.                         *)
(***************************************************************************)
\* {"name":"BatchRelayer"}
TextBatchRelayer ==
    <<123, 34, 110, 97, 109, 101, 34, 58, 34, 66, 97, 116, 99, 104, 82, 101, 108, 97, 121,
      101, 114, 34, 125>>

\* {"name":"Vault"}
TextVault == <<123, 34, 110, 97, 109, 101, 34, 58, 34, 86, 97, 117, 108, 116, 34, 125>>

\* test
TextTest == <<116, 101, 115, 116>>

json_name(text) ==
    IF text = TextBatchRelayer THEN Ok("BatchRelayer")
    ELSE IF text = TextVault THEN Ok("Vault")
    ELSE Err

(***************************************************************************)
(* types.rs: ProxyType, ProxyResult; Option<ProxyResult>                   *)
(***************************************************************************)
ProxyType ==
    {"NotProxy", "Eip1167", "Eip1967Direct", "Eip1967Beacon", "Eip1822", "Eip2535Diamond",
     "Eip897", "OpenZeppelin", "Safe", "Comptroller", "BatchRelayer"}

Single(target, proxy_type, immutable) ==
    [variant |-> "Single", target |-> target, proxy_type |-> proxy_type,
     immutable |-> immutable]

Diamond(target, proxy_type, immutable) ==
    [variant |-> "Diamond", target |-> target, proxy_type |-> proxy_type,
     immutable |-> immutable]

\* Option::None, and the value of result before detect_proxy has returned
None == [variant |-> "None", target |-> <<>>, proxy_type |-> "NotProxy", immutable |-> FALSE]

(***************************************************************************)
(* The JSON-RPC client (JsonRpcRequester): the environment.  A response is *)
(* a transport error or a JSON value; the responses of the model are named *)
(* and Val gives the value of each name.                                   *)
(***************************************************************************)
A1 == Rep("a", 39) \o <<"1">>

A2 == Rep("b", 39) \o <<"2">>

\* addresses the caller inspects
P1 == Str0x \o Rep("c", 39) \o <<"3">>

Word(body) == Rep("0", 64 - Len(body)) \o body

HexWord(n) == Word(<<HexChar(n \div 16), HexChar(n % 16)>>)

\* the 32-byte word of a 64-bit number given by its limbs
WordOfU64(a) ==
    Rep("0", 48) \o HexOfByte(a[1] \div 256) \o HexOfByte(a[1] % 256)
                 \o HexOfByte(a[2] \div 256) \o HexOfByte(a[2] % 256)
                 \o HexOfByte(a[3] \div 256) \o HexOfByte(a[3] % 256)
                 \o HexOfByte(a[4] \div 256) \o HexOfByte(a[4] % 256)

\* the ABI encoding of a string: offset 32, length, the bytes, zero padding
AbiString(text) ==
    LET pad == (32 - (Len(text) % 32)) % 32
    IN  Str0x \o HexWord(32) \o HexWord(Len(text)) \o HexOfBytes(text) \o Rep("0", 2 * pad)

Code1167(push, body) ==
    EIP_1167_BYTECODE_PREFIX \o push \o body
      \o <<"5","a","f","4","3","d","8","2","8","0","3","e","9","0","3","d","9","1","6","0","2","b">>
      \o EIP_1167_BYTECODE_SUFFIX

JsonString(s) == [t |-> "str", s |-> s]

\* 2^63 as a 64-bit number
TwoTo63 == <<32768, 0, 0, 0>>

ValOf(r) ==
    CASE r = "err" -> [t |-> "err", s |-> <<>>]
      [] r = "null" -> [t |-> "null", s |-> <<>>]
      [] r = "empty" -> JsonString(Str0x)
      [] r = "zero" -> JsonString(Str0x \o Rep("0", 64))
      [] r = "one" -> JsonString(PROXY_TYPE_FORWARDING)
      [] r = "word_A1" -> JsonString(Str0x \o Word(A1))
      [] r = "word_A2" -> JsonString(Str0x \o Word(A2))
      [] r = "short_zero" -> JsonString(<<"0", "x", "0">>)
      [] r = "two_words" -> JsonString(Str0x \o Word(A1) \o Word(A2))
      [] r = "two_zero_words" -> JsonString(Str0x \o Rep("0", 128))
      [] r = "code_A1" -> JsonString(Code1167(<<"7", "3">>, A1))
      [] r = "code_zero" -> JsonString(Code1167(<<"7", "3">>, Rep("0", 40)))
      [] r = "code_plain" -> JsonString(Str0x \o <<"6","0","8","0","6","0","4","0","5","2">>)
      [] r = "ver_relayer" -> JsonString(AbiString(TextBatchRelayer))
      [] r = "ver_vault" -> JsonString(AbiString(TextVault))
      [] r = "ver_test" -> JsonString(AbiString(TextTest))
      [] r = "facets_none" -> JsonString(Str0x \o HexWord(32) \o HexWord(0))
      [] r = "facets_zero" -> JsonString(Str0x \o HexWord(32) \o HexWord(1) \o Word(<<>>))
      [] r = "facets_A1_zero" ->
             JsonString(Str0x \o HexWord(32) \o HexWord(2) \o Word(A1) \o Word(<<>>))
      [] r = "facets_A2_A1" ->
             JsonString(Str0x \o HexWord(32) \o HexWord(2) \o Word(A2) \o Word(A1))
      [] r = "ver_huge" -> JsonString(Str0x \o HexWord(32) \o WordOfU64(TwoTo63))
      [] r = "facets_huge_offset" ->
             JsonString(Str0x \o WordOfU64(TwoTo63) \o HexWord(1) \o Word(A1))
      [] r = "facets_huge_length" ->
             JsonString(Str0x \o HexWord(32) \o WordOfU64(TwoTo63) \o Word(A1))
      [] r = "facets_far_offset" ->
             JsonString(Str0x \o WordOfU64(<<32768, 0, 0, 32>>) \o HexWord(1) \o Word(A1))

Responses ==
    {"err", "null", "empty", "zero", "one", "word_A1", "word_A2", "short_zero", "two_words",
     "two_zero_words", "code_A1", "code_zero", "code_plain", "ver_relayer", "ver_vault",
     "ver_test", "facets_none", "facets_zero", "facets_A1_zero", "facets_A2_A1",
     "ver_huge", "facets_huge_offset", "facets_huge_length", "facets_far_offset"}

ValTable == [r \in Responses |-> ValOf(r)]

Val(r) == ValTable[r]

\* Result::is_ok of the requester's call
is_ok(r) == Val(r).t # "err"

\* serde_json::Value::as_str
as_str(r) == IF Val(r).t = "str" THEN Ok(Val(r).s) ELSE Err

\* the answers the client can give at each request of the detector
Universe(at) ==
    CASE at = "eip1167_getCode" -> {"err", "empty", "code_A1"}
      [] at \in {"eip1967_direct_storage", "open_zeppelin_storage", "eip1822_storage"} ->
             {"err", "zero", "word_A1", "short_zero"}
      [] at = "eip1967_beacon_storage" -> {"err", "zero", "word_A1"}
      [] at = "eip1967_beacon_impl" -> {"err", "empty", "zero", "word_A2"}
      [] at = "eip1967_beacon_child" -> {"err", "empty", "word_A2"}
      [] at = "eip897_impl" -> {"err", "empty", "word_A1"}
      [] at = "eip897_proxyType" -> {"err", "null", "zero", "one"}
      [] at = "safe_masterCopy" -> {"err", "empty", "word_A1", "two_words"}
      [] at = "comptroller_impl" -> {"err", "zero", "word_A1", "two_zero_words"}
      [] at = "batch_relayer_version" -> {"err", "empty", "ver_vault", "ver_relayer"}
      [] at = "batch_relayer_getLibrary" -> {"err", "empty", "word_A1"}
      [] at = "eip2535_diamond_facets" ->
             {"err", "empty", "facets_none", "facets_zero", "facets_A1_zero"}

Awaits ==
    {"eip1167_getCode", "eip1967_direct_storage", "eip1967_beacon_storage",
     "eip1967_beacon_impl", "eip1967_beacon_child", "open_zeppelin_storage",
     "eip1822_storage", "eip897_impl", "eip897_proxyType", "safe_masterCopy",
     "comptroller_impl", "batch_relayer_version", "batch_relayer_getLibrary",
     "eip2535_diamond_facets"}

AnyClient == [at \in Awaits |-> Universe(at)]

(***************************************************************************)
(* The state: the detect_proxy calls of a caller, each with its arguments, *)
(* its position (the await it is suspended at), its locals and the value   *)
(* it returned; log[c] is the sequence of requests call c has issued, each *)
(* with the answer it got.  arg and ret are the argument and the return    *)
(* value of a decoder that is called on its own.                           *)
(***************************************************************************)
VARIABLES pc, proxy_address, tag_arg, beacon_address, target, result, log, arg, ret

vars == <<pc, proxy_address, tag_arg, beacon_address, target, result, log, arg, ret>>

MaxCalls == 2

Calls == 1..MaxCalls

\* the arguments a caller passes
InAddresses == {ZERO_ADDRESS, P1}

NoTag == "None"

InTags == {NoTag, "0x10"}

\* a detect_proxy that drops the tag of its caller
block_tag_Latest(c) == "latest"

\* detect_proxy: let block_tag = block_tag.unwrap_or("latest")
block_tag(c) == IF tag_arg[c] = NoTag THEN "latest" ELSE tag_arg[c]

\* an order that asks implementation() before it reads the EIP-1967 logic slot
ProbeOrder_Eip897First ==
    <<"eip1167", "eip897", "eip1967_beacon", "open_zeppelin", "eip1822", "eip1967_direct",
      "safe", "comptroller", "batch_relayer", "eip2535_diamond">>

\* the probes in the order detect_proxy tries them, and the first await of each
ProbeOrder ==
    <<"eip1167", "eip1967_direct", "eip1967_beacon", "open_zeppelin", "eip1822", "eip897",
      "safe", "comptroller", "batch_relayer", "eip2535_diamond">>

Entry(p) ==
    CASE p = "eip1167" -> "eip1167_getCode"
      [] p = "eip1967_direct" -> "eip1967_direct_storage"
      [] p = "eip1967_beacon" -> "eip1967_beacon_storage"
      [] p = "open_zeppelin" -> "open_zeppelin_storage"
      [] p = "eip1822" -> "eip1822_storage"
      [] p = "eip897" -> "eip897_impl"
      [] p = "safe" -> "safe_masterCopy"
      [] p = "comptroller" -> "comptroller_impl"
      [] p = "batch_relayer" -> "batch_relayer_version"
      [] p = "eip2535_diamond" -> "eip2535_diamond_facets"

ProbeIndex(p) == CHOOSE i \in 1..Len(ProbeOrder) : ProbeOrder[i] = p

\* a detector whose EIP-897 probe sends a transaction
Request_Write(c, at) ==
    [method |-> IF at = "eip1167_getCode" THEN "eth_getCode"
                ELSE IF at = "eip897_impl" THEN "eth_sendTransaction"
                ELSE "eth_call",
     to |-> proxy_address[c], data |-> <<at>>, block |-> block_tag(c)]

\* the request issued at an await of call c: RequestArguments {method, params}
Request(c, at) ==
    CASE at = "eip1167_getCode" ->
             [method |-> "eth_getCode", to |-> proxy_address[c], data |-> <<>>,
              block |-> block_tag(c)]
      [] at = "eip1967_direct_storage" ->
             [method |-> "eth_getStorageAt", to |-> proxy_address[c],
              data |-> EIP_1967_LOGIC_SLOT, block |-> block_tag(c)]
      [] at = "eip1967_beacon_storage" ->
             [method |-> "eth_getStorageAt", to |-> proxy_address[c],
              data |-> EIP_1967_BEACON_SLOT, block |-> block_tag(c)]
      [] at = "eip1967_beacon_impl" ->
             [method |-> "eth_call", to |-> beacon_address[c],
              data |-> EIP_1967_BEACON_IMPLEMENTATION, block |-> block_tag(c)]
      [] at = "eip1967_beacon_child" ->
             [method |-> "eth_call", to |-> beacon_address[c],
              data |-> EIP_1967_BEACON_CHILD_IMPLEMENTATION, block |-> block_tag(c)]
      [] at = "open_zeppelin_storage" ->
             [method |-> "eth_getStorageAt", to |-> proxy_address[c],
              data |-> OPEN_ZEPPELIN_IMPLEMENTATION_SLOT, block |-> block_tag(c)]
      [] at = "eip1822_storage" ->
             [method |-> "eth_getStorageAt", to |-> proxy_address[c],
              data |-> EIP_1822_LOGIC_SLOT, block |-> block_tag(c)]
      [] at = "eip897_impl" ->
             [method |-> "eth_call", to |-> proxy_address[c],
              data |-> EIP_897_IMPLEMENTATION, block |-> block_tag(c)]
      [] at = "eip897_proxyType" ->
             [method |-> "eth_call", to |-> proxy_address[c],
              data |-> EIP_897_PROXY_TYPE, block |-> block_tag(c)]
      [] at = "safe_masterCopy" ->
             [method |-> "eth_call", to |-> proxy_address[c],
              data |-> SAFE_MASTER_COPY, block |-> block_tag(c)]
      [] at = "comptroller_impl" ->
             [method |-> "eth_call", to |-> proxy_address[c],
              data |-> COMPTROLLER_IMPLEMENTATION, block |-> block_tag(c)]
      [] at = "batch_relayer_version" ->
             [method |-> "eth_call", to |-> proxy_address[c],
              data |-> BATCH_RELAYER_VERSION, block |-> block_tag(c)]
      [] at = "batch_relayer_getLibrary" ->
             [method |-> "eth_call", to |-> proxy_address[c],
              data |-> BATCH_RELAYER_GET_LIBRARY, block |-> block_tag(c)]
      [] at = "eip2535_diamond_facets" ->
             [method |-> "eth_call", to |-> proxy_address[c],
              data |-> EIP_2535_FACET_ADDRESSES, block |-> block_tag(c)]

\* The client answers a request it has answered before (in this call or in
\* another) as it did then, and any other request with any answer of its
\* universe.  The request of a logged await is recomputed from the call's
\* arguments and beacon_address, which do not change once the await has been
\* reached.
Answered(req) ==
    {log[d][i].resp : <<d, i>> \in
        {x \in Calls \X (1..14) : x[2] <= Len(log[x[1]]) /\ Request(x[1], log[x[1]][x[2]].at) = req}}

Answers(c, client) ==
    LET before == Answered(Request(c, pc[c]))
    IN  IF before # {} THEN before ELSE client[pc[c]]

\* no decoder has been called on its own, or the one called has not returned
NoArg == <<>>

Pending == [ok |-> FALSE, v |-> <<>>, pending |-> TRUE]

IsPending(r) == "pending" \in DOMAIN r

NoCalls ==
    /\ pc = [c \in Calls |-> "idle"]
    /\ proxy_address = [c \in Calls |-> <<>>]
    /\ tag_arg = [c \in Calls |-> NoTag]
    /\ beacon_address = [c \in Calls |-> <<>>]
    /\ target = [c \in Calls |-> <<>>]
    /\ result = [c \in Calls |-> None]
    /\ log = [c \in Calls |-> <<>>]

Init ==
    /\ NoCalls
    /\ arg = NoArg
    /\ ret = Pending

\* a detector that remembers having read the code: later calls skip eth_getCode
Call_Cached(c, a, t) ==
    /\ pc[c] = "idle"
    /\ proxy_address' = [proxy_address EXCEPT ![c] = a]
    /\ tag_arg' = [tag_arg EXCEPT ![c] = t]
    /\ pc' = [pc EXCEPT ![c] = Entry(ProbeOrder[IF c > 1 THEN 2 ELSE 1])]
    /\ UNCHANGED <<beacon_address, target, result, log, arg, ret>>

\* a detect_proxy that starts with the storage probes and never reads the code
Call_SkipCode(c, a, t) ==
    /\ pc[c] = "idle"
    /\ proxy_address' = [proxy_address EXCEPT ![c] = a]
    /\ tag_arg' = [tag_arg EXCEPT ![c] = t]
    /\ pc' = [pc EXCEPT ![c] = Entry(ProbeOrder[2])]
    /\ UNCHANGED <<beacon_address, target, result, log, arg, ret>>

\* the caller calls detect_proxy(a, client, t): the first probe starts
Call(c, a, t) ==
    /\ pc[c] = "idle"
    /\ proxy_address' = [proxy_address EXCEPT ![c] = a]
    /\ tag_arg' = [tag_arg EXCEPT ![c] = t]
    /\ pc' = [pc EXCEPT ![c] = Entry(ProbeOrder[1])]
    /\ UNCHANGED <<beacon_address, target, result, log, arg, ret>>

\* the request at pc[c] is sent and answered with r
Await(c, r) == log' = [log EXCEPT ![c] = Append(@, [at |-> pc[c], resp |-> r])]

\* detect_proxy: a probe returned Ok(Some(result)): return Some(result)
ProbeOk(c, res) ==
    /\ pc' = [pc EXCEPT ![c] = "done"]
    /\ result' = [result EXCEPT ![c] = res]

\* a detect_proxy that gives up at the first probe that returns Err
ProbeErr_Abort(c, p) ==
    /\ pc' = [pc EXCEPT ![c] = "done"]
    /\ result' = [result EXCEPT ![c] = None]

\* detect_proxy: probe p returned Err: the next probe runs, None after the last
ProbeErr(c, p) ==
    /\ pc' = [pc EXCEPT ![c] =
                IF ProbeIndex(p) = Len(ProbeOrder) THEN "done"
                ELSE Entry(ProbeOrder[ProbeIndex(p) + 1])]
    /\ result' = [result EXCEPT ![c] = None]

\* detect_proxy: `if let Ok(Some(result)) = probe(..).await { return Some(result) }`
Return(c, p, outcome) == IF outcome.ok THEN ProbeOk(c, outcome.v) ELSE ProbeErr(c, p)

\* a panic unwinds through detect_proxy: the call never returns
Unwind(c) ==
    /\ pc' = [pc EXCEPT ![c] = "panicked"]
    /\ UNCHANGED result

\* the address in an answer: `.map_err(..)?`, `.as_str().ok_or(..)?`, read_address
address_of(r) ==
    IF ~is_ok(r) THEN Err
    ELSE IF ~as_str(r).ok THEN Err
    ELSE read_address(as_str(r).v)

\* a probe that reads one address and returns it in a Single of its kind
single_probe(r, proxy_type, immutable) ==
    LET a == address_of(r)
    IN  IF ~a.ok THEN Err ELSE Ok(Single(a.v, proxy_type, immutable))

\* the outcome of detect_eip1167 once eth_getCode has answered r
eip1167(r) ==
    IF ~is_ok(r) THEN Err
    ELSE IF ~as_str(r).ok THEN Err
    ELSE LET parsed == parse_1167_bytecode(as_str(r).v)
         IN  IF ~parsed.ok THEN Err
             ELSE LET a == read_address(parsed.v)
                  IN  IF ~a.ok THEN Err ELSE Ok(Single(a.v, "Eip1167", TRUE))

detect_eip1167(c, client) ==
    /\ pc[c] = "eip1167_getCode"
    /\ \E r \in Answers(c, client) :
         /\ Await(c, r)
         /\ Return(c, "eip1167", eip1167(r))
    /\ UNCHANGED <<proxy_address, tag_arg, beacon_address, target, arg, ret>>

\* an EIP-1967 direct probe that sends its request again when it has failed
detect_eip1967_direct_Retry(c, client) ==
    /\ pc[c] = "eip1967_direct_storage"
    /\ \E r \in Answers(c, client) :
         /\ Await(c, r)
         /\ IF is_ok(r) THEN Return(c, "eip1967_direct", single_probe(r, "Eip1967Direct", FALSE))
            ELSE UNCHANGED <<pc, result>>
    /\ UNCHANGED <<proxy_address, tag_arg, beacon_address, target, arg, ret>>

detect_eip1967_direct(c, client) ==
    /\ pc[c] = "eip1967_direct_storage"
    /\ \E r \in Answers(c, client) :
         /\ Await(c, r)
         /\ Return(c, "eip1967_direct", single_probe(r, "Eip1967Direct", FALSE))
    /\ UNCHANGED <<proxy_address, tag_arg, beacon_address, target, arg, ret>>

\* a beacon probe that keeps the beacon address in a static shared by all calls
detect_eip1967_beacon_Static(c, client) ==
    /\ pc[c] = "eip1967_beacon_storage"
    /\ \E r \in Answers(c, client) :
         /\ Await(c, r)
         /\ LET beacon == address_of(r)
            IN  IF beacon.ok
                THEN /\ beacon_address' = [d \in Calls |-> beacon.v]
                     /\ pc' = [pc EXCEPT ![c] = "eip1967_beacon_impl"]
                     /\ UNCHANGED result
                ELSE /\ ProbeErr(c, "eip1967_beacon")
                     /\ UNCHANGED beacon_address
    /\ UNCHANGED <<proxy_address, tag_arg, target, arg, ret>>

\* detect_eip1967_beacon up to its second await: the beacon slot is read
detect_eip1967_beacon(c, client) ==
    /\ pc[c] = "eip1967_beacon_storage"
    /\ \E r \in Answers(c, client) :
         /\ Await(c, r)
         /\ LET beacon == address_of(r)
            IN  IF beacon.ok
                THEN /\ beacon_address' = [beacon_address EXCEPT ![c] = beacon.v]
                     /\ pc' = [pc EXCEPT ![c] = "eip1967_beacon_impl"]
                     /\ UNCHANGED result
                ELSE /\ ProbeErr(c, "eip1967_beacon")
                     /\ UNCHANGED beacon_address
    /\ UNCHANGED <<proxy_address, tag_arg, target, arg, ret>>

\* a beacon probe that asks childImplementation() whenever implementation()
\* has given no address
detect_eip1967_beacon_impl_NoAddress(c, client) ==
    /\ pc[c] = "eip1967_beacon_impl"
    /\ \E r \in Answers(c, client) :
         /\ Await(c, r)
         /\ IF address_of(r).ok
            THEN Return(c, "eip1967_beacon", single_probe(r, "Eip1967Beacon", FALSE))
            ELSE /\ pc' = [pc EXCEPT ![c] = "eip1967_beacon_child"]
                 /\ UNCHANGED result
    /\ UNCHANGED <<proxy_address, tag_arg, beacon_address, target, arg, ret>>

\* implementation() of the beacon has answered: `if impl_result.is_ok()`
detect_eip1967_beacon_impl(c, client) ==
    /\ pc[c] = "eip1967_beacon_impl"
    /\ \E r \in Answers(c, client) :
         /\ Await(c, r)
         /\ IF is_ok(r)
            THEN Return(c, "eip1967_beacon", single_probe(r, "Eip1967Beacon", FALSE))
            ELSE /\ pc' = [pc EXCEPT ![c] = "eip1967_beacon_child"]
                 /\ UNCHANGED result
    /\ UNCHANGED <<proxy_address, tag_arg, beacon_address, target, arg, ret>>

\* childImplementation() of the beacon has answered
detect_eip1967_beacon_child(c, client) ==
    /\ pc[c] = "eip1967_beacon_child"
    /\ \E r \in Answers(c, client) :
         /\ Await(c, r)
         /\ Return(c, "eip1967_beacon", single_probe(r, "Eip1967Beacon", FALSE))
    /\ UNCHANGED <<proxy_address, tag_arg, beacon_address, target, arg, ret>>

detect_open_zeppelin(c, client) ==
    /\ pc[c] = "open_zeppelin_storage"
    /\ \E r \in Answers(c, client) :
         /\ Await(c, r)
         /\ Return(c, "open_zeppelin", single_probe(r, "OpenZeppelin", FALSE))
    /\ UNCHANGED <<proxy_address, tag_arg, beacon_address, target, arg, ret>>

detect_eip1822(c, client) ==
    /\ pc[c] = "eip1822_storage"
    /\ \E r \in Answers(c, client) :
         /\ Await(c, r)
         /\ Return(c, "eip1822", single_probe(r, "Eip1822", FALSE))
    /\ UNCHANGED <<proxy_address, tag_arg, beacon_address, target, arg, ret>>

\* detect_eip897 up to its second await: implementation() has answered
detect_eip897(c, client) ==
    /\ pc[c] = "eip897_impl"
    /\ \E r \in Answers(c, client) :
         /\ Await(c, r)
         /\ LET impl == address_of(r)
            IN  IF impl.ok
                THEN /\ target' = [target EXCEPT ![c] = impl.v]
                     /\ pc' = [pc EXCEPT ![c] = "eip897_proxyType"]
                     /\ UNCHANGED result
                ELSE /\ ProbeErr(c, "eip897")
                     /\ UNCHANGED target
    /\ UNCHANGED <<proxy_address, tag_arg, beacon_address, arg, ret>>

\* a detect_eip897 that never compares the answer of proxyType()
eip897_proxy_type_Mutable(tgt, r) ==
    IF ~is_ok(r) THEN Err ELSE Ok(Single(tgt, "Eip897", FALSE))

\* the outcome of detect_eip897 once proxyType() has answered r
eip897_proxy_type(tgt, r) ==
    IF ~is_ok(r) THEN Err
    ELSE LET proxy_type_str == IF as_str(r).ok THEN as_str(r).v ELSE <<>>
             immutable == proxy_type_str = PROXY_TYPE_FORWARDING
         IN  Ok(Single(tgt, "Eip897", immutable))

detect_eip897_proxy_type(c, client) ==
    /\ pc[c] = "eip897_proxyType"
    /\ \E r \in Answers(c, client) :
         /\ Await(c, r)
         /\ Return(c, "eip897", eip897_proxy_type(target[c], r))
    /\ UNCHANGED <<proxy_address, tag_arg, beacon_address, target, arg, ret>>

detect_safe(c, client) ==
    /\ pc[c] = "safe_masterCopy"
    /\ \E r \in Answers(c, client) :
         /\ Await(c, r)
         /\ Return(c, "safe", single_probe(r, "Safe", FALSE))
    /\ UNCHANGED <<proxy_address, tag_arg, beacon_address, target, arg, ret>>

detect_comptroller(c, client) ==
    /\ pc[c] = "comptroller_impl"
    /\ \E r \in Answers(c, client) :
         /\ Await(c, r)
         /\ Return(c, "comptroller", single_probe(r, "Comptroller", FALSE))
    /\ UNCHANGED <<proxy_address, tag_arg, beacon_address, target, arg, ret>>

\* the check of detect_batch_relayer on the answer of version(): Ok when the
\* probe goes on to getLibrary(), Err when it fails, Panic when read_string panics
batch_relayer_version(r, overflow_checks) ==
    IF ~is_ok(r) THEN Err
    ELSE IF ~as_str(r).ok THEN Err
    ELSE LET text == read_string(as_str(r).v, overflow_checks)
         IN  IF IsPanic(text) THEN Panic
             ELSE IF ~text.ok THEN Err
             ELSE LET name == json_name(text.v)
                  IN  IF ~name.ok THEN Err
                      ELSE IF name.v # "BatchRelayer" THEN Err
                      ELSE Ok(<<>>)

\* detect_batch_relayer up to its second await: version() has answered
detect_batch_relayer(c, client) ==
    /\ pc[c] = "batch_relayer_version"
    /\ \E r \in Answers(c, client), overflow_checks \in BOOLEAN :
         /\ Await(c, r)
         /\ LET version == batch_relayer_version(r, overflow_checks)
            IN  IF IsPanic(version) THEN Unwind(c)
                ELSE IF version.ok
                THEN /\ pc' = [pc EXCEPT ![c] = "batch_relayer_getLibrary"]
                     /\ UNCHANGED result
                ELSE ProbeErr(c, "batch_relayer")
    /\ UNCHANGED <<proxy_address, tag_arg, beacon_address, target, arg, ret>>

\* getLibrary() has answered
detect_batch_relayer_library(c, client) ==
    /\ pc[c] = "batch_relayer_getLibrary"
    /\ \E r \in Answers(c, client) :
         /\ Await(c, r)
         /\ Return(c, "batch_relayer", single_probe(r, "BatchRelayer", TRUE))
    /\ UNCHANGED <<proxy_address, tag_arg, beacon_address, target, arg, ret>>

\* a Diamond probe that reports its first facet as a Single
eip2535_diamond_Single(r, overflow_checks) ==
    IF ~is_ok(r) THEN Err
    ELSE IF ~as_str(r).ok THEN Err
    ELSE LET facets == read_address_array(as_str(r).v, overflow_checks)
         IN  IF IsPanic(facets) THEN Panic
             ELSE IF ~facets.ok THEN Err
             ELSE Ok(Single(facets.v[1], "Eip2535Diamond", FALSE))

\* the outcome of detect_eip2535_diamond once facetAddresses() has answered r
eip2535_diamond(r, overflow_checks) ==
    IF ~is_ok(r) THEN Err
    ELSE IF ~as_str(r).ok THEN Err
    ELSE LET facets == read_address_array(as_str(r).v, overflow_checks)
         IN  IF IsPanic(facets) THEN Panic
             ELSE IF ~facets.ok THEN Err
             ELSE Ok(Diamond(facets.v, "Eip2535Diamond", FALSE))

detect_eip2535_diamond(c, client) ==
    /\ pc[c] = "eip2535_diamond_facets"
    /\ \E r \in Answers(c, client), overflow_checks \in BOOLEAN :
         /\ Await(c, r)
         /\ LET outcome == eip2535_diamond(r, overflow_checks)
            IN  IF IsPanic(outcome) THEN Unwind(c)
                ELSE Return(c, "eip2535_diamond", outcome)
    /\ UNCHANGED <<proxy_address, tag_arg, beacon_address, target, arg, ret>>

\* one round trip of call c against a client
Step(c, client) ==
    \/ detect_eip1167(c, client)
    \/ detect_eip1967_direct(c, client)
    \/ detect_eip1967_beacon(c, client)
    \/ detect_eip1967_beacon_impl(c, client)
    \/ detect_eip1967_beacon_child(c, client)
    \/ detect_open_zeppelin(c, client)
    \/ detect_eip1822(c, client)
    \/ detect_eip897(c, client)
    \/ detect_eip897_proxy_type(c, client)
    \/ detect_safe(c, client)
    \/ detect_comptroller(c, client)
    \/ detect_batch_relayer(c, client)
    \/ detect_batch_relayer_library(c, client)
    \/ detect_eip2535_diamond(c, client)

\* One detect_proxy call, of either address, against a client that may give
\* every answer of Universe to every request.
Next ==
    \/ \E a \in InAddresses : Call(1, a, NoTag)
    \/ Step(1, AnyClient)

Spec == Init /\ [][Next]_vars

\* The same, with every request returning a value or an error in the end: a
\* call that is suspended at an await is resumed.
SpecLive == Spec /\ WF_vars(Step(1, AnyClient))

\* A caller that calls detect_proxy again and again with one address, each
\* call after the one before has returned, against a client that answers
\* each request either with a failure or with the evidence of a pattern.
ReplayAnswers ==
    {"err", "code_A1", "word_A1", "word_A2", "one", "ver_relayer", "facets_A1_zero"}

ReplayClient == [at \in Awaits |-> Universe(at) \cap ReplayAnswers]

Finished(c) == pc[c] \in {"done", "panicked"}

CallAgain(c, t) ==
    /\ \A d \in Calls : d < c => Finished(d)
    /\ Call(c, P1, t)

NextReplay ==
    \/ \E c \in Calls, t \in InTags : CallAgain(c, t)
    \/ \E c \in Calls : Step(c, ReplayClient)

SpecReplay == Init /\ [][NextReplay]_vars

\* One detect_proxy call against a client that is bound by nothing but its
\* trait: besides the answers of Universe it gives a storage value without
\* its leading zeros, and relays return data of any content: an offset word or
\* a length word of 2^63 or more, two zero words for implementation(), a
\* version() that is no JSON, a zero library.
Hostile(at) ==
    CASE at = "eip1967_beacon_storage" -> {"short_zero"}
      [] at = "eip897_impl" -> {"two_zero_words"}
      [] at = "batch_relayer_version" -> {"null", "ver_test", "ver_huge"}
      [] at = "batch_relayer_getLibrary" -> {"zero"}
      [] at = "eip2535_diamond_facets" ->
             {"facets_huge_offset", "facets_huge_length", "facets_far_offset"}
      [] OTHER -> {}

HostileClient == [at \in Awaits |-> Universe(at) \cup Hostile(at)]

NextHostile ==
    \/ Call(1, P1, NoTag)
    \/ Step(1, HostileClient)

SpecHostile == Init /\ [][NextHostile]_vars

\* Callers that share one client and call detect_proxy at any time, so that
\* the calls are interleaved at their awaits in every way.
NextInterleaved ==
    \/ \E c \in Calls, a \in InAddresses, t \in InTags : Call(c, a, t)
    \/ \E c \in Calls : Step(c, ReplayClient)

SpecInterleaved == Init /\ [][NextInterleaved]_vars

(***************************************************************************)
(* parse_1167_bytecode called on its own, with runtime code put together   *)
(* from a trampoline, a push opcode, an address body and a tail.           *)
(***************************************************************************)
Trampoline == <<"0", "x", "3", "6", "3", "d", "3", "d", "3", "7", "3", "d", "3", "d", "3", "d", "3", "6", "3", "d">>

OtherTrampoline == <<"0", "x", "3", "6", "3", "d", "3", "d", "3", "7", "3", "d", "3", "d", "3", "d", "3", "6", "3", "e">>

Trampolines == {Trampoline, OtherTrampoline}

\* the push byte less 0x5f: the opcodes 0x00, 0x5e, 0x5f to 0x74, 0x7f and 0xff
PushWidths == {-95, -1} \cup (0..21) \cup {32, 160}

BodyKinds == {"zero", "ab", "lead0", "low1", "upper"}

Body(w, kind) ==
    CASE kind = "zero" -> Rep("0", 2 * w)
      [] kind = "ab" -> Rep("a", w) \o Rep("b", w)
      [] kind = "lead0" -> IF w <= 0 THEN <<>> ELSE <<"0", "0">> \o Rep("c", 2 * w - 2)
      [] kind = "low1" -> IF w <= 0 THEN <<>> ELSE Rep("0", 2 * w - 1) \o <<"1">>
      [] kind = "upper" -> Rep("D", w) \o Rep("9", w)

\* the eleven bytes between the address and 57fd5bf3 in the standard code
DispatchTail == <<"5", "a", "f", "4", "3", "d", "8", "2", "8", "0", "3", "e", "9", "0", "3", "d", "9", "1", "6", "0", "2", "b">>

TailKinds ==
    {"standard", "metadata", "after22bytes", "missing", "other", "early", "late", "truncated"}

CodeTail(kind) ==
    CASE kind = "standard" -> DispatchTail \o <<"5", "7", "f", "d", "5", "b", "f", "3">>
      [] kind = "metadata" -> DispatchTail \o <<"5", "7", "f", "d", "5", "b", "f", "3", "a", "2", "6", "4", "6", "9", "7", "0">>
      [] kind = "after22bytes" -> DispatchTail \o DispatchTail \o <<"5", "7", "f", "d", "5", "b", "f", "3">>
      [] kind = "missing" -> DispatchTail
      [] kind = "other" -> DispatchTail \o <<"5", "7", "f", "d", "5", "b", "f", "4">>
      [] kind = "early" -> SubSeq(DispatchTail, 1, 20) \o <<"5", "7", "f", "d", "5", "b", "f", "3", "0", "0">>
      [] kind = "late" -> DispatchTail \o <<"0", "0", "5", "7", "f", "d", "5", "b", "f", "3">>
      [] kind = "truncated" -> DispatchTail \o <<"5", "7", "f", "d", "5", "b">>

Bytecodes ==
    [trampoline : Trampolines, w : PushWidths, body : BodyKinds, tail : TailKinds]

Bytecode(a) == a.trampoline \o HexOfByte(95 + a.w) \o Body(a.w, a.body) \o CodeTail(a.tail)

InitParse ==
    /\ NoCalls
    /\ arg \in Bytecodes
    /\ ret = Pending

call_parse_1167_bytecode ==
    /\ IsPending(ret)
    /\ ret' = parse_1167_bytecode(Bytecode(arg))
    /\ UNCHANGED <<pc, proxy_address, tag_arg, beacon_address, target, result, log, arg>>

NextParse == call_parse_1167_bytecode

SpecParse == InitParse /\ [][NextParse]_vars

(***************************************************************************)
(* read_string called on its own, with blobs put together from an offset   *)
(* word, a length word and the bytes that follow; the build is either one. *)
(***************************************************************************)
\* "blob": both head words and the data; "empty": no byte at all; "odd": a
\* blob and half a byte; "word0only": the offset word and nothing else
BlobForms == {"blob", "empty", "odd", "word0only"}

StringOffsets == {0, 32, 64}

\* lengths 0 to 36, and 2^62, 2^63 - 1, 2^63, 2^63 + 2 and 2^64 - 1
StringLengths ==
    {U64FromNat(n) : n \in {0, 2, 3, 4, 5, 32, 36}}
      \cup {<<16384, 0, 0, 0>>, <<32767, 65535, 65535, 65535>>, <<32768, 0, 0, 0>>,
            <<32768, 0, 0, 2>>, <<65535, 65535, 65535, 65535>>}

\* "test", "t" and e-acute, and bytes that are no UTF-8
TextTestBytes == <<116, 101, 115, 116>>

TextAccentBytes == <<116, 195, 169>>

TextNoUtf8Bytes == <<116, 255, 101>>

ZeroBytes(n) == [i \in 1..n |-> 0]

Padded(text) == text \o ZeroBytes((32 - (Len(text) % 32)) % 32)

StringDatas ==
    {<<>>, TextTestBytes, Padded(TextTestBytes), Padded(TextTestBytes) \o ZeroBytes(32),
     TextAccentBytes, Padded(TextAccentBytes), TextNoUtf8Bytes, Padded(TextNoUtf8Bytes)}

StringBlobs ==
    [form : BlobForms, offset : StringOffsets, length : StringLengths, data : StringDatas]

StringBlob(a) ==
    LET blob == Str0x \o HexWord(a.offset) \o WordOfU64(a.length) \o HexOfBytes(a.data)
    IN  CASE a.form = "blob" -> blob
          [] a.form = "empty" -> Str0x
          [] a.form = "odd" -> blob \o <<"0">>
          [] a.form = "word0only" -> Str0x \o HexWord(a.offset)

InitReadString ==
    /\ NoCalls
    /\ arg \in StringBlobs
    /\ ret = Pending

call_read_string ==
    /\ IsPending(ret)
    /\ \E overflow_checks \in BOOLEAN : ret' = read_string(StringBlob(arg), overflow_checks)
    /\ UNCHANGED <<pc, proxy_address, tag_arg, beacon_address, target, result, log, arg>>

NextReadString == call_read_string

SpecReadString == InitReadString /\ [][NextReadString]_vars

(***************************************************************************)
(* read_address_array called on its own, with blobs put together from an   *)
(* offset, a list of addresses and the high 12 bytes of their words.       *)
(***************************************************************************)
MaxFacets == 3

\* the offsets in bytes: the array right after the offset word, one byte
\* further, and one and two words further
ArrayOffsets == {32, 33, 64, 96}

FacetNames == {"A1", "A2", "zero"}

FacetLists == UNION {[1..n -> FacetNames] : n \in 0..MaxFacets}

FacetAddress(name) ==
    CASE name = "A1" -> A1
      [] name = "A2" -> A2
      [] name = "zero" -> Rep("0", 40)

RECURSIVE FacetWords(_, _)
FacetWords(list, high) ==
    IF list = <<>> THEN <<>>
    ELSE Rep(high, 24) \o FacetAddress(Head(list)) \o FacetWords(Tail(list), high)

\* cut: the last byte of the blob is missing
ArrayBlobs ==
    [offset : ArrayOffsets, list : FacetLists, high : {"0", "f"}, cut : BOOLEAN]

ArrayBlob(a) ==
    LET blob == Str0x \o HexWord(a.offset) \o Rep("e", 2 * (a.offset - 32))
                  \o HexWord(Len(a.list)) \o FacetWords(a.list, a.high)
    IN  IF a.cut THEN SubSeq(blob, 1, Len(blob) - 2) ELSE blob

InitReadAddressArray ==
    /\ NoCalls
    /\ arg \in ArrayBlobs
    /\ ret = Pending

call_read_address_array ==
    /\ IsPending(ret)
    /\ \E overflow_checks \in BOOLEAN :
         ret' = read_address_array(ArrayBlob(arg), overflow_checks)
    /\ UNCHANGED <<pc, proxy_address, tag_arg, beacon_address, target, result, log, arg>>

NextReadAddressArray == call_read_address_array

SpecReadAddressArray == InitReadAddressArray /\ [][NextReadAddressArray]_vars

(***************************************************************************)
(* read_address called on its own, with the return data of an eth_call:    *)
(* one 32-byte word or more, the address in the low 20 bytes of the last.  *)
(***************************************************************************)
MaxWords == 4

AddressBlobs ==
    [words : 1..MaxWords, first : FacetNames, last : FacetNames, high : {"0", "f"}]

AddressBlob(a) ==
    Str0x \o FacetWords([i \in 1..(a.words - 1) |-> a.first], "0")
          \o Rep(a.high, 24) \o FacetAddress(a.last)

InitReadAddress ==
    /\ NoCalls
    /\ arg \in AddressBlobs
    /\ ret = Pending

call_read_address ==
    /\ IsPending(ret)
    /\ ret' = read_address(AddressBlob(arg))
    /\ UNCHANGED <<pc, proxy_address, tag_arg, beacon_address, target, result, log, arg>>

NextReadAddress == call_read_address

SpecReadAddress == InitReadAddress /\ [][NextReadAddress]_vars

(***************************************************************************)
(* What the properties below read off a call                               *)
(***************************************************************************)
Done(c) == pc[c] = "done"

Returned(c) == Done(c) /\ result[c] # None

\* the order of the probes as the specification lists it, by the kind reported
ClaimedOrder ==
    <<"Eip1167", "Eip1967Direct", "Eip1967Beacon", "OpenZeppelin", "Eip1822", "Eip897",
      "Safe", "Comptroller", "BatchRelayer", "Eip2535Diamond">>

Rank(kind) == CHOOSE i \in 1..Len(ClaimedOrder) : ClaimedOrder[i] = kind

\* the pattern a request gives evidence of, told by what it asks for
KindOfRequest(req) ==
    CASE req.method = "eth_getCode" -> "Eip1167"
      [] req.method = "eth_getStorageAt" /\ req.data = EIP_1967_LOGIC_SLOT -> "Eip1967Direct"
      [] req.method = "eth_getStorageAt" /\ req.data = EIP_1967_BEACON_SLOT -> "Eip1967Beacon"
      [] req.method = "eth_getStorageAt" /\ req.data = OPEN_ZEPPELIN_IMPLEMENTATION_SLOT ->
             "OpenZeppelin"
      [] req.method = "eth_getStorageAt" /\ req.data = EIP_1822_LOGIC_SLOT -> "Eip1822"
      [] req.method = "eth_call" /\ req.data = EIP_1967_BEACON_CHILD_IMPLEMENTATION ->
             "Eip1967Beacon"
      [] req.method = "eth_call" /\ req.data = EIP_897_PROXY_TYPE -> "Eip897"
      [] req.method = "eth_call" /\ req.data = SAFE_MASTER_COPY -> "Safe"
      [] req.method = "eth_call" /\ req.data = COMPTROLLER_IMPLEMENTATION -> "Comptroller"
      [] req.method = "eth_call" /\ req.data = BATCH_RELAYER_VERSION -> "BatchRelayer"
      [] req.method = "eth_call" /\ req.data = BATCH_RELAYER_GET_LIBRARY -> "BatchRelayer"
      [] req.method = "eth_call" /\ req.data = EIP_2535_FACET_ADDRESSES -> "Eip2535Diamond"
      [] OTHER -> "implementation()"

\* the requests of call c in the order issued, and the kind each belongs to:
\* implementation() belongs to the beacon probe when it follows a request of
\* the beacon probe, and to the EIP-897 probe otherwise
RequestAt(c, i) == Request(c, log[c][i].at)

Requests(c) == [i \in 1..Len(log[c]) |-> RequestAt(c, i)]

KindAt(c, i) ==
    LET k == KindOfRequest(RequestAt(c, i))
    IN  IF k # "implementation()" THEN k
        ELSE IF i > 1 /\ KindOfRequest(RequestAt(c, i - 1)) = "Eip1967Beacon"
             THEN "Eip1967Beacon"
             ELSE "Eip897"

\* the kinds of the probes call c has run, in the order it ran them
RECURSIVE KindsUpTo(_, _)
KindsUpTo(c, n) ==
    IF n = 0 THEN <<>>
    ELSE LET before == KindsUpTo(c, n - 1)
         IN  IF before # <<>> /\ before[Len(before)] = KindAt(c, n) THEN before
             ELSE Append(before, KindAt(c, n))

KindsRun(c) == KindsUpTo(c, Len(log[c]))

LastAnswer(c) == log[c][Len(log[c])].resp

\* a hex string that encodes the number zero, whatever its length
IsZeroHex(s) == starts_with(s, Str0x) /\ Len(s) > 2 /\ \A i \in 3..Len(s) : s[i] = "0"

\* an answer that is one 32-byte word holding a non-zero address
NonZeroWords == {"word_A1", "word_A2"}

(***************************************************************************)
(* C1: detect_proxy runs the probes in the fixed order EIP-1167, EIP-1967  *)
(* direct, EIP-1967 beacon, OpenZeppelin, EIP-1822, EIP-897, Safe,         *)
(* Comptroller, BatchRelayer, Diamond and returns the result of the first  *)
(* that succeeds: when it has returned a result of kind K, the probes it   *)
(* ran are exactly those up to K, in that order; it returns None only      *)
(* after all ten ran, and then the last answer is no non-empty address     *)
(* list; and once the EIP-1967 logic slot has been answered with a         *)
(* non-zero word, Eip1967Direct is reported.                               *)
(***************************************************************************)
C1_FirstSuccessInOrder ==
    \A c \in Calls :
      Done(c) =>
        /\ KindsRun(c) =
             SubSeq(ClaimedOrder, 1,
                    IF result[c] = None THEN Len(ClaimedOrder) ELSE Rank(result[c].proxy_type))
        /\ result[c] = None => LastAnswer(c) \notin {"facets_A1_zero", "facets_A2_A1"}
        /\ \A i \in 1..Len(log[c]) :
             (KindAt(c, i) = "Eip1967Direct" /\ log[c][i].resp \in NonZeroWords)
               => result[c].proxy_type = "Eip1967Direct"

C1_Witness ==
    /\ Done(1)
    /\ result[1].proxy_type = "Eip1967Direct"
    /\ log[1][2].resp = "word_A1"

(***************************************************************************)
(* C2 as stated: whenever a request of probe N ends in a transport         *)
(* failure, probe N fails and probe N+1 is the next to run (None is        *)
(* returned after the last probe): the request after the failed one, or    *)
(* the one about to be sent, belongs to probe N+1.                         *)
(***************************************************************************)
PendingKind(c) ==
    LET k == KindOfRequest(Request(c, pc[c]))
    IN  IF k # "implementation()" THEN k
        ELSE IF log[c] # <<>> /\ KindOfRequest(Requests(c)[Len(log[c])]) = "Eip1967Beacon"
             THEN "Eip1967Beacon"
             ELSE "Eip897"

NextProbeRuns(c, i) ==
    LET n == Rank(KindAt(c, i))
    IN  IF i < Len(log[c]) THEN n < Len(ClaimedOrder) /\ KindAt(c, i + 1) = ClaimedOrder[n + 1]
        ELSE IF n = Len(ClaimedOrder) THEN Done(c) /\ result[c] = None
        ELSE pc[c] \in Awaits /\ PendingKind(c) = ClaimedOrder[n + 1]

C2_TransportFailureFailsProbe ==
    \A c \in Calls : \A i \in 1..Len(log[c]) :
      log[c][i].resp = "err" => NextProbeRuns(c, i)

(***************************************************************************)
(* C2 amended: a transport failure is never raised to the caller, and it   *)
(* fails the probe it occurs in, so that the next probe runs, except for   *)
(* the beacon's implementation() request: when that one fails, the beacon  *)
(* probe goes on to ask childImplementation().                             *)
(***************************************************************************)
IsBeaconImplementation(c, i) ==
    /\ Requests(c)[i].data = EIP_1967_BEACON_IMPLEMENTATION
    /\ KindAt(c, i) = "Eip1967Beacon"

ChildImplementationNext(c, i) ==
    IF i < Len(log[c]) THEN Requests(c)[i + 1].data = EIP_1967_BEACON_CHILD_IMPLEMENTATION
    ELSE /\ pc[c] \in Awaits
         /\ Request(c, pc[c]).data = EIP_1967_BEACON_CHILD_IMPLEMENTATION

C2_TransportFailureAmended ==
    \A c \in Calls :
      /\ pc[c] # "panicked"
      /\ \A i \in 1..Len(log[c]) :
           log[c][i].resp = "err" =>
             IF IsBeaconImplementation(c, i) THEN ChildImplementationNext(c, i)
             ELSE NextProbeRuns(c, i)

C2_Witness ==
    /\ Returned(1)
    /\ \E i \in 1..Len(log[1]) :
         /\ log[1][i].resp = "err"
         /\ i < Len(log[1])
         /\ ~IsBeaconImplementation(1, i)

(***************************************************************************)
(* C3: whenever detect_proxy returns a Single, its target is not the zero  *)
(* address, whatever the answers were (a full word, a shorter or a longer  *)
(* hex string).                                                            *)
(***************************************************************************)
C3_SingleTargetNeverZero ==
    \A c \in Calls :
      (Done(c) /\ result[c].variant = "Single") => ~IsZeroHex(result[c].target)

(***************************************************************************)
(* C4: whenever detect_proxy returns a Diamond, its target list is not     *)
(* empty and holds no zero address; a facet array of length zero, or of    *)
(* zero addresses only, makes the Diamond probe fail.                      *)
(***************************************************************************)
C4_DiamondTargetsNonZero ==
    \A c \in Calls :
      Done(c) =>
        /\ result[c].variant = "Diamond" =>
             /\ Len(result[c].target) >= 1
             /\ \A j \in 1..Len(result[c].target) : ~IsZeroHex(result[c].target[j])
        /\ (/\ KindAt(c, Len(log[c])) = "Eip2535Diamond"
            /\ LastAnswer(c) \in {"facets_none", "facets_zero"}) => result[c] = None

C4_Witness ==
    /\ Done(1)
    /\ result[1].variant = "Diamond"
    /\ LastAnswer(1) = "facets_A1_zero"
    /\ result[1].target = <<Str0x \o A1>>

(***************************************************************************)
(* C5 as stated: detect_proxy of the zero address returns None, whatever   *)
(* the client answers.                                                     *)
(***************************************************************************)
C5_ZeroAddressIsNone ==
    \A c \in Calls :
      (Done(c) /\ proxy_address[c] = ZERO_ADDRESS) => result[c] = None

(***************************************************************************)
(* C5 amended: detect_proxy of the zero address returns None when the      *)
(* client answers as a node does for an account without code and storage:  *)
(* "0x" for eth_getCode, the zero word for every eth_getStorageAt, and     *)
(* "0x" or a failure for every eth_call.                                   *)
(***************************************************************************)
EmptyAccountAnswer(req, resp) ==
    CASE req.method = "eth_getCode" -> resp = "empty"
      [] req.method = "eth_getStorageAt" -> resp = "zero"
      [] req.method = "eth_call" -> resp \in {"empty", "err"}

AnsweredAsEmptyAccount(c) ==
    \A i \in 1..Len(log[c]) : EmptyAccountAnswer(Requests(c)[i], log[c][i].resp)

C5_ZeroAddressEmptyAccountIsNone ==
    \A c \in Calls :
      (Done(c) /\ proxy_address[c] = ZERO_ADDRESS /\ AnsweredAsEmptyAccount(c))
        => result[c] = None

C5_Witness ==
    /\ Done(1)
    /\ proxy_address[1] = ZERO_ADDRESS
    /\ AnsweredAsEmptyAccount(1)
    /\ KindsRun(1) = ClaimedOrder
    /\ \E i \in 1..Len(log[1]) : log[1][i].resp = "empty" /\ Requests(1)[i].method = "eth_call"

(***************************************************************************)
(* C6: a returned result is immutable exactly when its kind is Eip1167 or  *)
(* BatchRelayer, or its kind is Eip897 and proxyType() returned the value  *)
(* 1.                                                                      *)
(***************************************************************************)
ValueIsOne(r) ==
    /\ is_ok(r)
    /\ as_str(r).ok
    /\ LET s == as_str(r).v
       IN  /\ starts_with(s, Str0x)
           /\ Len(s) > 2
           /\ s[Len(s)] = "1"
           /\ \A i \in 3..(Len(s) - 1) : s[i] = "0"

C7_ProxyTypeFailureStillEip897 ==
    \A c \in Calls : \A i \in 1..Len(log[c]) :
      (Requests(c)[i].data = EIP_897_PROXY_TYPE /\ log[c][i].resp = "err") =>
        /\ Done(c)
        /\ result[c] = Single(target[c], "Eip897", FALSE)

(***************************************************************************)
(* C8: the beacon probe asks implementation() first and never asks         *)
(* childImplementation() before it; childImplementation() is asked if and  *)
(* only if implementation() reverted or returned nothing; when both fail   *)
(* the probe fails and OpenZeppelin is the next probe.                     *)
(***************************************************************************)
IsBeaconChild(c, i) == Requests(c)[i].data = EIP_1967_BEACON_CHILD_IMPLEMENTATION

C8_ChildIffImplementationFailed ==
    \A c \in Calls : \A i \in 1..Len(log[c]) :
      /\ IsBeaconImplementation(c, i) =>
           (ChildImplementationNext(c, i) <=> log[c][i].resp \in {"err", "empty"})
      /\ IsBeaconChild(c, i) =>
           /\ i > 1
           /\ IsBeaconImplementation(c, i - 1)
           /\ log[c][i].resp \in {"err", "empty"} => NextProbeRuns(c, i)

(***************************************************************************)
(* C9: the target of a returned Single of kind Eip1967Direct,              *)
(* Eip1967Beacon, OpenZeppelin, Eip1822, Eip897, Safe, Comptroller or      *)
(* BatchRelayer is exactly the address carried by the answer to the        *)
(* evidence request of the probe that kind names (the low 20 bytes of its  *)
(* last 32-byte word), and the evidence request of the beacon probe went   *)
(* to the address read from the beacon slot.                               *)
(***************************************************************************)
AddressCarried(s) ==
    IF Len(s) >= 42 THEN Str0x \o SubSeq(s, Len(s) - 39, Len(s))
    ELSE Str0x \o Rep("0", 42 - Len(s)) \o SliceFrom(s, 2)

EvidenceIndex(c) ==
    IF result[c].proxy_type = "Eip897" THEN Len(log[c]) - 1 ELSE Len(log[c])

BeaconSlotAnswer(c) ==
    LET i == CHOOSE j \in 1..Len(log[c]) : Requests(c)[j].data = EIP_1967_BEACON_SLOT
    IN  as_str(log[c][i].resp).v

C9_TargetIsEvidenceAddress ==
    \A c \in Calls :
      (Returned(c) /\ result[c].variant = "Single" /\ result[c].proxy_type # "Eip1167") =>
        LET e == EvidenceIndex(c)
        IN  /\ KindAt(c, e) = result[c].proxy_type
            /\ Requests(c)[e].to =
                 IF result[c].proxy_type = "Eip1967Beacon"
                 THEN AddressCarried(BeaconSlotAnswer(c))
                 ELSE proxy_address[c]
            /\ result[c].target = AddressCarried(as_str(log[c][e].resp).v)

(***************************************************************************)
(* C10: two detect_proxy calls with the same address and block tag,        *)
(* against a client that answers identical requests identically, issue the *)
(* same sequence of requests and return the same result: the detector      *)
(* keeps nothing from one call to the next.                                *)
(***************************************************************************)
SameArguments(c, d) ==
    /\ pc[c] # "idle"
    /\ pc[d] # "idle"
    /\ proxy_address[c] = proxy_address[d]
    /\ tag_arg[c] = tag_arg[d]

C10_SameArgumentsSameOutcome ==
    \A c \in Calls : \A d \in Calls :
      SameArguments(c, d) =>
        /\ \A i \in 1..Len(log[c]) :
             i <= Len(log[d]) =>
               /\ Requests(c)[i] = Requests(d)[i]
               /\ log[c][i].resp = log[d][i].resp
        /\ (Done(c) /\ Done(d)) =>
             /\ result[c] = result[d]
             /\ Len(log[c]) = Len(log[d])

C10_Witness ==
    /\ SameArguments(1, 2)
    /\ Returned(1)
    /\ Done(2)
    /\ Len(log[2]) >= 3

(***************************************************************************)
(* C11: in every eth_call request of the detector the data field is the    *)
(* bare selector: "0x" and exactly 8 hex digits, without padding and       *)
(* without arguments.                                                      *)
(***************************************************************************)
C11_DataIsBareSelector ==
    \A c \in Calls : \A i \in 1..Len(log[c]) :
      Requests(c)[i].method = "eth_call" =>
        /\ Len(Requests(c)[i].data) = 10
        /\ starts_with(Requests(c)[i].data, Str0x)
        /\ IsHex(SliceFrom(Requests(c)[i].data, 2))

(***************************************************************************)
(* C12: every request of a detect_proxy call has one of the methods        *)
(* eth_getCode, eth_getStorageAt and eth_call, whatever the answers were:  *)
(* no request writes.                                                      *)
(***************************************************************************)
ReadMethods == {"eth_getCode", "eth_getStorageAt", "eth_call"}

C12_OnlyReadRequests ==
    \A c \in Calls :
      /\ \A i \in 1..Len(log[c]) : Requests(c)[i].method \in ReadMethods
      /\ pc[c] \in Awaits => Request(c, pc[c]).method \in ReadMethods

C12_Witness ==
    /\ Done(1)
    /\ Len(log[1]) = 13
    /\ {Requests(1)[i].method : i \in 1..Len(log[1])} = ReadMethods

(***************************************************************************)
(* C13: every request of one detect_proxy call, those to the beacon and    *)
(* the proxyType() and getLibrary() requests included, carries the block   *)
(* tag the caller supplied, or "latest" when the caller supplied none.     *)
(***************************************************************************)
TagOfCall(c) == IF tag_arg[c] = NoTag THEN "latest" ELSE tag_arg[c]

C13_OneBlockTag ==
    \A c \in Calls :
      /\ \A i \in 1..Len(log[c]) : Requests(c)[i].block = TagOfCall(c)
      /\ pc[c] \in Awaits => Request(c, pc[c]).block = TagOfCall(c)

C13_Witness ==
    /\ Done(1)
    /\ tag_arg[1] = "0x10"
    /\ \E i \in 1..Len(log[1]) :
         Requests(1)[i].data = EIP_1967_BEACON_CHILD_IMPLEMENTATION
    /\ Requests(1)[Len(log[1])].data = BATCH_RELAYER_GET_LIBRARY
    /\ Done(2)
    /\ tag_arg[2] = NoTag

(***************************************************************************)
(* What the properties of parse_1167_bytecode read off its argument        *)
(***************************************************************************)
Parsed == ~IsPending(ret)

\* the number of bytes between the end of the address body and 57fd5bf3 in
\* each tail; -1 when the tail does not hold 57fd5bf3 in full
SuffixAfterBytes(kind) ==
    CASE kind \in {"standard", "metadata"} -> 11
      [] kind = "after22bytes" -> 22
      [] kind = "early" -> 10
      [] kind = "late" -> 12
      [] kind \in {"missing", "other", "truncated"} -> -1

WellFormed(a) ==
    /\ a.trampoline = Trampoline
    /\ a.w \in 1..20
    /\ a.tail \in {"standard", "metadata"}

IsZeroBody(a) == \A i \in 1..(2 * a.w) : Body(a.w, a.body)[i] = "0"

(***************************************************************************)
(* C14: round trip: for every 20-byte address A, parse_1167_bytecode of    *)
(* 0x363d3d373d3d3d363d73, A and 5af43d82803e903d91602b57fd5bf3 returns A. *)
(***************************************************************************)
C14_RoundTrip ==
    (Parsed /\ arg.trampoline = Trampoline /\ arg.w = 20 /\ arg.tail = "standard")
      => ret = Ok(Str0x \o Body(20, arg.body))

C14_Witness ==
    /\ Parsed
    /\ arg = [trampoline |-> Trampoline, w |-> 20, body |-> "ab", tail |-> "standard"]
    /\ ret = Ok(Str0x \o Rep("a", 20) \o Rep("b", 20))

(***************************************************************************)
(* C15: for every push width w from 1 to 20, a well-formed bytecode with   *)
(* the push opcode 0x5f+w and a body of w bytes parses to the address of   *)
(* 20-w zero bytes followed by the body: padded on the left.               *)
(***************************************************************************)
C15_LeftPadded ==
    (Parsed /\ WellFormed(arg))
      => ret = Ok(Str0x \o Rep("0", 40 - 2 * arg.w) \o Body(arg.w, arg.body))

C15_Witness ==
    /\ Parsed
    /\ arg = [trampoline |-> Trampoline, w |-> 8, body |-> "ab", tail |-> "standard"]
    /\ ret = Ok(Str0x \o Rep("0", 24) \o Rep("a", 8) \o Rep("b", 8))

(***************************************************************************)
(* C16: the parser rejects every bytecode whose address body is all zero   *)
(* bytes, for every push width from 1 to 20.                               *)
(***************************************************************************)
C16_ZeroBodyRejected ==
    (Parsed /\ arg.w \in 1..20 /\ IsZeroBody(arg)) => ~ret.ok

(***************************************************************************)
(* C17 as stated: the parser accepts a bytecode only if 57fd5bf3 stands 22 *)
(* bytes after the end of the address body.                                *)
(***************************************************************************)
C17_SuffixAfter22Bytes ==
    (Parsed /\ ret.ok) => SuffixAfterBytes(arg.tail) = 22

(***************************************************************************)
(* C17 amended: the parser accepts a bytecode only if 57fd5bf3 stands 22   *)
(* hex digits, that is 11 bytes, after the end of the address body; a      *)
(* bytecode with the right prefix and push opcode in which 57fd5bf3 is     *)
(* missing, shifted or cut short is rejected.                              *)
(***************************************************************************)
C17_SuffixAfter11Bytes ==
    /\ (Parsed /\ ret.ok) => SuffixAfterBytes(arg.tail) = 11
    /\ (Parsed /\ arg.trampoline = Trampoline /\ arg.w \in 1..20
          /\ SuffixAfterBytes(arg.tail) # 11) => ret = Err

C17_Witness ==
    /\ Parsed
    /\ arg.trampoline = Trampoline
    /\ arg.w = 20
    /\ arg.body = "ab"
    /\ arg.tail = "late"
    /\ ret = Err

(***************************************************************************)
(* What the properties of read_string read off its argument                *)
(***************************************************************************)
Returns == ~IsPending(ret)

\* the length word is at most the number of bytes that follow it
LengthFits(a) ==
    /\ a.length[1] = 0
    /\ a.length[2] = 0
    /\ a.length[3] * 65536 + a.length[4] <= Len(a.data)

FirstBytes(a) == SubSeq(a.data, 1, a.length[3] * 65536 + a.length[4])

\* UTF-8 among the byte strings of StringDatas and their beginnings: ASCII
\* bytes only, or "t", e-acute and ASCII bytes
IsUtf8Text(bs) ==
    \/ \A i \in 1..Len(bs) : bs[i] < 128
    \/ /\ Len(bs) >= 3
       /\ SubSeq(bs, 1, 3) = TextAccentBytes
       /\ \A i \in 4..Len(bs) : bs[i] < 128

Decodable(a) ==
    /\ a.form = "blob"
    /\ a.offset = 32
    /\ LengthFits(a)
    /\ IsUtf8Text(FirstBytes(a))

(***************************************************************************)
(* C18: read_string succeeds exactly on the blobs whose word 0 is 32,      *)
(* whose word 1 is a length L with at least L bytes after it and whose     *)
(* next L bytes are UTF-8, and then returns exactly those L bytes.         *)
(***************************************************************************)
C18_SucceedsExactlyOnStrings ==
    Returns =>
      /\ ret.ok <=> Decodable(arg)
      /\ ret.ok => ret.v = FirstBytes(arg)

(***************************************************************************)
(* C19: for every length word from 0 to 2^64-1 with fewer bytes after it   *)
(* than it says, read_string returns an error: no string and no abort,     *)
(* also when length*2 wraps around.                                        *)
(***************************************************************************)
C19_TooLongIsAnError ==
    (Returns /\ arg.form = "blob" /\ arg.offset = 32 /\ ~LengthFits(arg)) => ret = Err

(***************************************************************************)
(* C20: read_address_array decodes an address[] blob for every offset in   *)
(* word 0 for which the data fits, not only 32: the result is the low 20   *)
(* bytes of each of the N words after the length at that offset, in their  *)
(* order, without the zero addresses and with duplicates kept (and an      *)
(* error when nothing is left); offset 32, length 2, words (A1, 0) gives   *)
(* [A1].                                                                   *)
(***************************************************************************)
IsFacet(name) == name # "zero"

FacetsKept(a) ==
    LET kept == SelectSeq(a.list, IsFacet)
    IN  [i \in 1..Len(kept) |-> Str0x \o FacetAddress(kept[i])]

C20_ArrayAtAnyOffset ==
    (~IsPending(ret) /\ ~arg.cut) =>
      /\ ret = IF FacetsKept(arg) = <<>> THEN Err ELSE Ok(FacetsKept(arg))
      /\ (arg.offset = 32 /\ arg.list = <<"A1", "zero">>) => ret = Ok(<<Str0x \o A1>>)

C20_Witness ==
    /\ ~IsPending(ret)
    /\ arg = [offset |-> 64, list |-> <<"A2", "zero", "A2">>, high |-> "f", cut |-> FALSE]
    /\ ret = Ok(<<Str0x \o A2, Str0x \o A2>>)

(***************************************************************************)
(* C21: read_address of the return data of an eth_call gives the low 20    *)
(* bytes of the last 32-byte word of the data, for data of one word and    *)
(* for data of more than one word, and fails when those 20 bytes are all   *)
(* zero.                                                                   *)
(***************************************************************************)
C21_LowBytesOfLastWord ==
    ~IsPending(ret) =>
      ret = IF arg.last = "zero" THEN Err ELSE Ok(Str0x \o FacetAddress(arg.last))

(***************************************************************************)
(* C22: the kind of every result detect_proxy returns is one of Eip1167,   *)
(* Eip1967Direct, Eip1967Beacon, Eip1822, Eip2535Diamond, Eip897,          *)
(* OpenZeppelin, Safe, Comptroller and BatchRelayer, never NotProxy; a     *)
(* Diamond result has kind Eip2535Diamond and a Single result never has.   *)
(***************************************************************************)
ProxyKinds == ProxyType \ {"NotProxy"}

C22_KindOfResult ==
    \A c \in Calls :
      Returned(c) =>
        /\ result[c].proxy_type \in ProxyKinds
        /\ result[c].variant \in {"Single", "Diamond"}
        /\ result[c].variant = "Diamond" <=> result[c].proxy_type = "Eip2535Diamond"

C22_Witness ==
    /\ Returned(1)
    /\ result[1] = Diamond(<<Str0x \o A1>>, "Eip2535Diamond", FALSE)
    /\ Len(log[1]) = 10

(***************************************************************************)
(* C23: in the beacon probe, when implementation() on the beacon completes *)
(* and returns the zero address, the probe fails for good:                 *)
(* childImplementation() is not asked, no Eip1967Beacon result is          *)
(* returned, and OpenZeppelin is the next probe.                           *)
(***************************************************************************)
ImplementationGaveZero(c, i) ==
    /\ i <= Len(log[c])
    /\ IsBeaconImplementation(c, i)
    /\ log[c][i].resp = "zero"

C23_ZeroImplementationFailsBeacon ==
    \A c \in Calls : \A i \in 1..14 :
      ImplementationGaveZero(c, i) =>
        /\ ~ChildImplementationNext(c, i)
        /\ \A j \in 1..Len(log[c]) : ~IsBeaconChild(c, j)
        /\ NextProbeRuns(c, i)
        /\ Done(c) => result[c].proxy_type # "Eip1967Beacon"

C23_Witness ==
    /\ ImplementationGaveZero(1, 4)
    /\ Returned(1)
    /\ result[1].proxy_type = "OpenZeppelin"

(***************************************************************************)
(* C24: the BatchRelayer probe never succeeds in part.  A BatchRelayer     *)
(* result is returned only when version() decoded to JSON with the name    *)
(* BatchRelayer and getLibrary() returned a non-zero address; when         *)
(* version() is no ABI string holding such JSON, or when it is and         *)
(* getLibrary() fails, returns nothing or returns zero, no BatchRelayer    *)
(* result is produced and the Diamond probe runs next.                     *)
(***************************************************************************)
IsVersion(c, i) == Requests(c)[i].data = BATCH_RELAYER_VERSION

IsGetLibrary(c, i) == Requests(c)[i].data = BATCH_RELAYER_GET_LIBRARY

C24_NoPartialSuccess ==
    \A c \in Calls :
      /\ (Done(c) /\ result[c].proxy_type = "BatchRelayer") =>
           /\ Len(log[c]) >= 2
           /\ IsVersion(c, Len(log[c]) - 1)
           /\ log[c][Len(log[c]) - 1].resp = "ver_relayer"
           /\ IsGetLibrary(c, Len(log[c]))
           /\ LastAnswer(c) \in NonZeroWords
           /\ result[c] = Single(AddressCarried(as_str(LastAnswer(c)).v), "BatchRelayer", TRUE)
      /\ \A i \in 1..Len(log[c]) :
           /\ (IsVersion(c, i) /\ log[c][i].resp # "ver_relayer") => NextProbeRuns(c, i)
           /\ (IsGetLibrary(c, i) /\ log[c][i].resp \notin NonZeroWords) => NextProbeRuns(c, i)

(***************************************************************************)
(* C25: within one detect_proxy call the probes run one after another: at  *)
(* most one request is in flight at any time; the first request is         *)
(* eth_getCode on the inspected address; the requests of a probe stand     *)
(* together, the probes follow in their order without a gap, and once a    *)
(* probe has succeeded its request is the last one.                        *)
(***************************************************************************)
InFlight(c) == {Request(c, at) : at \in {x \in Awaits : pc[c] = x}}

IsGetCode(c, req) ==
    req.method = "eth_getCode" /\ req.to = proxy_address[c] /\ req.block = TagOfCall(c)

\* probe K or the probe after it
SameOrNext(kind, next) == Rank(next) \in {Rank(kind), Rank(kind) + 1}

C25_OneProbeAtATime ==
    \A c \in Calls :
      /\ Cardinality(InFlight(c)) <= 1
      /\ Finished(c) => InFlight(c) = {}
      /\ pc[c] = "idle" => log[c] = <<>>
      /\ log[c] # <<>> => IsGetCode(c, Requests(c)[1])
      /\ (log[c] = <<>> /\ pc[c] # "idle") => \A req \in InFlight(c) : IsGetCode(c, req)
      /\ \A i \in 1..(Len(log[c]) - 1) : SameOrNext(KindAt(c, i), KindAt(c, i + 1))
      /\ (log[c] # <<>> /\ pc[c] \in Awaits) =>
           SameOrNext(KindAt(c, Len(log[c])), PendingKind(c))
      /\ Returned(c) => KindAt(c, Len(log[c])) = result[c].proxy_type

C25_Witness ==
    /\ Done(1)
    /\ result[1] = None
    /\ KindsRun(1) = ClaimedOrder
    /\ Len(log[1]) = 12

(***************************************************************************)
(* C26: the detector keeps no state across calls.  When two detect_proxy   *)
(* calls that share a client are interleaved in any way at their awaits,   *)
(* calls with the same arguments issue the same requests and return the    *)
(* same result, as when one runs after the other; the client answers a     *)
(* request of one call as it answered the same request of the other; and a *)
(* step of one call changes nothing of the other call.                     *)
(***************************************************************************)
ClientUnchanged ==
    \A c \in Calls : \A d \in Calls :
      \A i \in 1..Len(log[c]) : \A j \in 1..Len(log[d]) :
        Requests(c)[i] = Requests(d)[j] => log[c][i].resp = log[d][j].resp

\* what a call owns
Locals(c) ==
    <<pc[c], proxy_address[c], tag_arg[c], beacon_address[c], target[c], result[c], log[c]>>

LocalsAfter(c) ==
    <<pc'[c], proxy_address'[c], tag_arg'[c], beacon_address'[c], target'[c], result'[c],
      log'[c]>>

OneCallSteps ==
    \A c \in Calls : \A d \in Calls :
      (c # d /\ pc'[c] # pc[c]) => LocalsAfter(d) = Locals(d)

C26_Stateless ==
    /\ [](C10_SameArgumentsSameOutcome /\ ClientUnchanged)
    /\ [][OneCallSteps]_vars

\* both calls are suspended at an await of the beacon probe, one call is one
\* request ahead of the other
C26_Witness ==
    /\ SameArguments(1, 2)
    /\ pc[1] = "eip1967_beacon_impl"
    /\ pc[2] = "eip1967_beacon_child"
    /\ Len(log[1]) = 3
    /\ Len(log[2]) = 4

(***************************************************************************)
(* C27: no request is sent again inside a probe: every probe issues at     *)
(* least one and at most three requests, all of them different, so a call  *)
(* issues 14 requests at most and, when every request returns a value or   *)
(* an error in the end, it terminates.                                     *)
(***************************************************************************)
\* one request at each await of the code: 14
MaxRequests == Cardinality(Awaits)

RequestsOfProbe(c, kind) == {i \in 1..Len(log[c]) : KindAt(c, i) = kind}

\* the requests of one probe are different requests, and they lie within three
\* consecutive requests of the call
NoRetry(c) ==
    /\ Len(log[c]) <= MaxRequests
    /\ \A i \in 1..Len(log[c]) : \A j \in (i + 1)..Len(log[c]) :
         KindAt(c, i) = KindAt(c, j) =>
           /\ RequestAt(c, i) # RequestAt(c, j)
           /\ j <= i + 2
    /\ Done(c) => Len(log[c]) >= 1

C27_NoRetryAndTermination ==
    /\ [](MaxRequests = 14 /\ \A c \in Calls : NoRetry(c))
    /\ \A c \in Calls : (pc[c] \in Awaits) ~> Finished(c)

C27_Witness ==
    /\ Done(1)
    /\ Len(log[1]) = MaxRequests
    /\ Cardinality(RequestsOfProbe(1, "Eip1967Beacon")) = 3

(***************************************************************************)
(* C28: parse_1167_bytecode takes as push opcode the bytes 0x60 to 0x73    *)
(* only, and reads a body of exactly opcode - 0x5f bytes: a bytecode with  *)
(* the right prefix whose next byte is below 0x60 or above 0x73 is         *)
(* rejected, and an accepted bytecode gives the bytes of that body.        *)
(***************************************************************************)
PushOpcode(a) == 95 + a.w

C28_PushOpcodes ==
    (Parsed /\ arg.trampoline = Trampoline) =>
      /\ (PushOpcode(arg) < 96 \/ PushOpcode(arg) > 115) => ret = Err
      /\ ret.ok =>
           /\ PushOpcode(arg) \in 96..115
           /\ Len(Body(arg.w, arg.body)) = 2 * (PushOpcode(arg) - 95)
           /\ SubSeq(ret.v, 43 - 2 * (PushOpcode(arg) - 95), 42) = Body(arg.w, arg.body)
      /\ (PushOpcode(arg) \in 96..115 /\ arg.tail = "standard") => ret.ok

C28_Witness ==
    /\ Parsed
    /\ arg = [trampoline |-> Trampoline, w |-> 21, body |-> "ab", tail |-> "standard"]
    /\ ret = Err

(***************************************************************************)
(* C29: once a probe has succeeded no further request is issued: the       *)
(* request that gave the evidence is the last one and no request of a      *)
(* later probe is in the log; and the second request of a probe (the calls *)
(* to the beacon, proxyType(), getLibrary()) is issued only after the      *)
(* first has passed: a non-zero beacon slot, a non-zero implementation(),  *)
(* a version() whose name is BatchRelayer.                                 *)
(***************************************************************************)
NonZeroAnswer(r) == is_ok(r) /\ as_str(r).ok /\ Len(as_str(r).v) > 2 /\ ~IsZeroHex(as_str(r).v)

IsProxyType(c, i) == RequestAt(c, i).data = EIP_897_PROXY_TYPE

PrimaryPassed(c, i) ==
    /\ IsBeaconImplementation(c, i) =>
         /\ i > 1
         /\ RequestAt(c, i - 1).data = EIP_1967_BEACON_SLOT
         /\ NonZeroAnswer(log[c][i - 1].resp)
    /\ IsBeaconChild(c, i) =>
         /\ i > 2
         /\ RequestAt(c, i - 2).data = EIP_1967_BEACON_SLOT
         /\ NonZeroAnswer(log[c][i - 2].resp)
    /\ IsProxyType(c, i) =>
         /\ i > 1
         /\ RequestAt(c, i - 1).data = EIP_897_IMPLEMENTATION
         /\ RequestAt(c, i - 1).to = proxy_address[c]
         /\ NonZeroAnswer(log[c][i - 1].resp)
    /\ IsGetLibrary(c, i) =>
         /\ i > 1
         /\ IsVersion(c, i - 1)
         /\ log[c][i - 1].resp = "ver_relayer"

C29_NothingAfterSuccess ==
    \A c \in Calls :
      /\ Returned(c) =>
           /\ InFlight(c) = {}
           /\ KindAt(c, Len(log[c])) = result[c].proxy_type
           /\ \A i \in 1..Len(log[c]) : Rank(KindAt(c, i)) <= Rank(result[c].proxy_type)
      /\ \A i \in 1..Len(log[c]) : PrimaryPassed(c, i)

(***************************************************************************)
(* C30: whatever 64-bit values the offset word and the length word of a    *)
(* facetAddresses() answer hold, read_address_array returns a list or an   *)
(* error, and an error when the array would end past the end of the data,  *)
(* also when offset*2, offset+64 or length*64 wraps around: detect_proxy   *)
(* ends with a result or None, and with None when the array does not fit.  *)
(***************************************************************************)
IsFacetAddresses(c, i) == RequestAt(c, i).data = EIP_2535_FACET_ADDRESSES

\* the answers whose offset word or length word points past the end of the data
ArrayPastEnd == {"facets_huge_offset", "facets_huge_length", "facets_far_offset"}

C30_WrapAroundIsAnError ==
    \A c \in Calls : \A i \in 1..Len(log[c]) :
      IsFacetAddresses(c, i) =>
        /\ Done(c)
        /\ log[c][i].resp \in ArrayPastEnd => result[c] = None

====
